---- MODULE Spec2Model ----
(***************************************************************************)
(* Verification model of the dividend-event pipeline:                      *)
(*   - VietStockScraper (src/main.py): scrape_vietstock_events,            *)
(*     get_stock_price, add_stock_prices, send_telegram_message,          *)
(*     save_to_csv and main();                                             *)
(*   - VietstockAPICrawler (src/chronium.py): crawl_events,                *)
(*     get_stock_price, add_stock_prices.                                  *)
(* Five specifications share the variables:                                *)
(*   SpecCollect  one collection run of either collector,                  *)
(*   SpecEnrich   one add_stock_prices call of either variant,             *)
(*   SpecMain     one run of main() of src/main.py,                        *)
(*   SpecExtract  the dividend extraction applied to one content string,   *)
(*   SpecSession  scrape_vietstock_events at the grain of the browser      *)
(*                session's lifetime.                                      *)
(***************************************************************************)
EXTENDS Integers, Sequences, FiniteSets, TLC

VARIABLES
    pc,             \* position of the running call
    variant,        \* "scraper" (src/main.py) or "api" (src/chronium.py)
    max_pages,      \* the page budget of the collection run
    page,           \* loop variable of the page loop
    all_data,       \* rows accumulated by the collector
    data,           \* scrape_vietstock_events' local `data`
    data_bound,     \* FALSE until `data` has been assigned
    requested,      \* history: page numbers requested, in order
    outcomes,       \* history: the fetch outcomes of each requested page
    httpTried,      \* history: pages whose plain-HTTP fetch was made
    batch,          \* add_stock_prices' argument `data`
    i,              \* index of the next row of batch
    filtered_data,  \* add_stock_prices' result list
    now,            \* wall clock, minutes since today's midnight
    lookups,        \* history: oracle results per input row
    queried,        \* history: the day each lookup asked the quote for
    dateHeader,     \* name of the ex-rights date column of the scraped table
    FILTER_PRICE,   \* main(): price ceiling
    FILTER_PERCENT, \* main(): percent floor
    FILTER_MIN_DATE,\* main(): minimum lead days
    filtered_items, \* main(): rows selected by the filter stage
    posts,          \* history: outcomes of the HTTP POSTs to the alert sink
    sendCalls,      \* history: arguments of the send_telegram_message calls
    csvCalls,       \* history: outcomes of the save_to_csv calls
    content,        \* the content string of the row being parsed
    extracted,      \* the row's dividendValue
    drivers,        \* number of browser sessions that are open
    result          \* what scrape_with_selenium is about to return

vars == <<pc, variant, max_pages, page, all_data, data, data_bound, requested,
          outcomes, httpTried, batch, i, filtered_data, now, lookups,
          dateHeader, FILTER_PRICE, FILTER_PERCENT, FILTER_MIN_DATE,
          filtered_items, posts, sendCalls, csvCalls, queried, content,
          extracted, drivers, result>>

collectVars == <<max_pages, page, all_data, data, data_bound, requested,
                 outcomes, httpTried>>
enrichVars == <<batch, i, filtered_data, now, lookups, queried>>
mainVars == <<dateHeader, FILTER_PRICE, FILTER_PERCENT, FILTER_MIN_DATE,
              filtered_items, posts, sendCalls, csvCalls>>
extractVars == <<content, extracted>>
sessionVars == <<drivers, result>>

----------------------------------------------------------------------------
(* Bounds of the model *)

MaxPages == 3
MaxRows == 2
MaxBatch == 2
MaxLen == 6

(* Python's None, for values that are otherwise numbers *)
None == -1

Variants == {"scraper", "api"}

----------------------------------------------------------------------------
(* The collectors *)

(* Outcomes of scrape_with_selenium: None (no driver, load or wait error),  *)
(* a result whose page_source is empty, or a page source in which           *)
(* parse_vietstock_data finds n rows.                                       *)
SelOutcomes ==
    {[kind |-> "none", n |-> 0], [kind |-> "emptysrc", n |-> 0]}
    \cup {[kind |-> "html", n |-> n] : n \in 0..MaxRows}

(* Outcomes of scrape_with_requests: None (transport error or non-success   *)
(* status), or a text in which parse_vietstock_data finds n rows.           *)
HttpOutcomes ==
    {[kind |-> "none", n |-> 0]} \cup {[kind |-> "html", n |-> n] : n \in 0..MaxRows}

(* The rows parse_vietstock_data returns for a page fetched by a tier *)
PageRows(p, tier, n) == [k \in 1..n |-> [page |-> p, tier |-> tier, idx |-> k]]

(* What row.get('EventContent', '') gives for an API row: None (JSON null), *)
(* a text without the monetary pattern ('' when the key is absent), a text  *)
(* with it.                                                                 *)
ContentKinds == {"null", "nomatch", "match"}

(* Outcomes of the POST of crawl_events: transport exception, non-200       *)
(* status, or a 200 response whose 'data' holds the given rows.             *)
ApiOutcomes ==
    {[kind |-> "exc", rows |-> <<>>], [kind |-> "non200", rows |-> <<>>]}
    \cup {[kind |-> "ok", rows |-> r] :
            r \in UNION {[1..n -> ContentKinds] : n \in 0..MaxRows}}

(* list.extend *)
ExtendFront(list, more) == more \o list
Extend(list, more) == list \o more

(* the step of range(1, max_pages + 1) *)
NextPage(p) == p + 1

(* does a tier outcome give rows *)
GivesRows(o) == o.kind = "html" /\ o.n > 0

(* crawl_events, lines 45-49: the dividend value of a row whose content is  *)
(* a string; a text with the pattern stands for "... 1,500 dong/CP"         *)
ExtractDividend(kind) == IF kind = "match" THEN 1500 ELSE None

(* crawl_events, lines 42-50: the row loop over the rows of one page.       *)
(* re.search raises TypeError on a None content: the rows before it have    *)
(* been appended, the rest are not reached.                                 *)
RECURSIVE CrawlRows(_, _, _, _)
CrawlRows(p, rows, k, acc) ==
    IF k > Len(rows) THEN [raised |-> FALSE, all |-> acc]
    ELSE IF rows[k] = "null" THEN [raised |-> TRUE, all |-> acc]
    ELSE CrawlRows(p, rows, k + 1,
                   Append(acc, [page |-> p, tier |-> "api", idx |-> k,
                                content |-> rows[k],
                                dividendValue |-> ExtractDividend(rows[k])]))

(* State on entry of a collection run: all_data = [] and the range starts   *)
(* at 1; an empty range (max_pages = 0) returns at once.                    *)
InitCollect ==
    /\ variant \in Variants
    /\ max_pages \in 0..MaxPages
    /\ page = 1
    /\ pc = IF max_pages = 0 THEN "done" ELSE "loop"
    /\ all_data = <<>> /\ data = <<>> /\ data_bound = FALSE
    /\ requested = <<>> /\ outcomes = <<>> /\ httpTried = {}
    /\ batch = <<>> /\ i = 0 /\ filtered_data = <<>> /\ now = 0
    /\ lookups = <<>> /\ queried = <<>>
    /\ dateHeader = "" /\ FILTER_PRICE = 0 /\ FILTER_PERCENT = 0
    /\ FILTER_MIN_DATE = 0 /\ filtered_items = <<>> /\ posts = <<>>
    /\ sendCalls = <<>> /\ csvCalls = <<>>
    /\ content = <<>> /\ extracted = None /\ drivers = 0 /\ result = ""

(* One iteration of the page loop of scrape_vietstock_events *)
ScrapePage ==
    /\ pc = "loop" /\ variant = "scraper" /\ page <= max_pages
    /\ \E sel \in SelOutcomes, http \in HttpOutcomes :
        LET viaSel == PageRows(page, "sel", sel.n)
            viaHttp == PageRows(page, "http", http.n)
            \* line 222: result and result['page_source']
            parsed == sel.kind = "html"
            \* line 229-230: the fallback is made only in the else of `if data`
            fallback == parsed /\ viaSel = <<>>
            \* the value of `data` at line 238
            newData == IF ~parsed THEN data
                       ELSE IF viaSel # <<>> THEN viaSel
                       ELSE IF http.kind = "html" THEN viaHttp
                       ELSE viaSel
            newBound == data_bound \/ parsed
            added == IF ~parsed THEN <<>>
                     ELSE IF viaSel # <<>> THEN viaSel
                     ELSE IF http.kind = "html" THEN viaHttp
                     ELSE <<>>
        IN  /\ requested' = Append(requested, page)
            /\ outcomes' = Append(outcomes, [sel |-> sel, http |-> http])
            /\ httpTried' = IF fallback THEN httpTried \cup {page} ELSE httpTried
            /\ all_data' = Extend(all_data, added)
            /\ data' = newData
            /\ data_bound' = newBound
            /\ IF ~newBound
               THEN \* line 238 reads an unassigned local: UnboundLocalError
                    /\ pc' = "raised" /\ page' = page
               ELSE IF newData = <<>>
               THEN \* line 240: break, line 245: return all_data
                    /\ pc' = "done" /\ page' = page
               ELSE /\ page' = NextPage(page)
                    /\ pc' = IF NextPage(page) > max_pages THEN "done" ELSE "loop"
    /\ UNCHANGED <<variant, max_pages>>
    /\ UNCHANGED enrichVars /\ UNCHANGED mainVars
    /\ UNCHANGED extractVars /\ UNCHANGED sessionVars

(* One iteration of the page loop of crawl_events *)
CrawlPage ==
    /\ pc = "loop" /\ variant = "api" /\ page <= max_pages
    /\ \E out \in ApiOutcomes :
        LET res == CrawlRows(page, out.rows, 1, <<>>)
        IN  /\ requested' = Append(requested, page)
            /\ outcomes' = Append(outcomes, out)
            /\ IF out.kind = "exc"
               THEN \* requests.post raises, nothing catches it
                    /\ pc' = "raised" /\ page' = page /\ all_data' = all_data
               ELSE IF out.kind = "non200" \/ out.rows = <<>>
               THEN \* lines 35-37 and 40-41: break
                    /\ pc' = "done" /\ page' = page /\ all_data' = all_data
               ELSE /\ all_data' = Extend(all_data, res.all)
                    /\ IF res.raised
                       THEN pc' = "raised" /\ page' = page
                       ELSE /\ page' = NextPage(page)
                            /\ pc' = IF NextPage(page) > max_pages
                                     THEN "done" ELSE "loop"
    /\ UNCHANGED <<variant, max_pages, data, data_bound, httpTried>>
    /\ UNCHANGED enrichVars /\ UNCHANGED mainVars
    /\ UNCHANGED extractVars /\ UNCHANGED sessionVars

NextCollect == ScrapePage \/ CrawlPage

SpecCollect == InitCollect /\ [][NextCollect]_vars

----------------------------------------------------------------------------
(* add_stock_prices and get_stock_price *)

(* timedelta(days=1), in minutes *)
DayMin == 1440

(* Wall-clock times of the call: 00:00, 09:29 and 09:30 of day 0 *)
NowTimes == {0, 569, 570}

(* Ex-rights date of a row: no date column, a text that does not parse, a   *)
(* text without UTC offset, a text with one (pandas then gives a tz-aware   *)
(* Timestamp); a parsable date is midnight of day `off`.                    *)
DateKinds == {"missing", "unparsable", "naive", "aware"}
ParsableKinds == {"naive", "aware"}
Offsets == {1, 2, 4}

Dividends == {None, 0, 2000}

RowTypes ==
    {[dk |-> dk, off |-> 0, code |-> c, dividendValue |-> d] :
        dk \in DateKinds \ ParsableKinds, c \in BOOLEAN, d \in Dividends}
    \cup
    {[dk |-> dk, off |-> o, code |-> c, dividendValue |-> d] :
        dk \in ParsableKinds, o \in Offsets, c \in BOOLEAN, d \in Dividends}

(* The input lists of at most MaxBatch rows *)
BatchesOfLen(n) == [1..n -> RowTypes]

(* Quote prices, in thousands *)
PriceVals == {0, 16, 25}

(* Outcomes of quote.history: an exception, an empty frame, or a first row  *)
(* with close, high and low.                                                *)
OracleOutcomes ==
    {[kind |-> "raise", close |-> 0, high |-> 0, low |-> 0],
     [kind |-> "empty", close |-> 0, high |-> 0, low |-> 0]}
    \cup {[kind |-> "quote", close |-> c, high |-> h, low |-> l] :
            c \in PriceVals, h \in PriceVals, l \in PriceVals}

(* get_stock_price: close or high or low; 0 for an empty frame or an error *)
GetStockPrice(o) ==
    IF o.kind # "quote" THEN 0
    ELSE IF o.close # 0 THEN o.close
    ELSE IF o.high # 0 THEN o.high
    ELSE o.low

(* pd.to_datetime(date_str, dayfirst=True, errors='coerce') is null *)
IsNaT(row) == row.dk \notin ParsableKinds

(* the instant a parsable ex-rights date denotes, in minutes *)
DateOf(row) == row.off * DayMin

(* min_date of add_stock_prices.                                            *)
(* main.py: today = datetime.today() - 1 day; min_date = today + 2 days.    *)
(* chronium.py: min_date = now + 3 days.                                    *)
MinDate(v, t) ==
    IF v = "scraper" THEN (t - DayMin) + 2 * DayMin ELSE t + 3 * DayMin

(* `dt > min_date` compares a pandas Timestamp with a datetime: it raises   *)
(* TypeError when exactly one of the two is tz-aware. main.py's min_date is *)
(* naive, chronium.py's is tz-aware.                                        *)
CompareRaises(v, row) ==
    IF v = "scraper" THEN row.dk = "aware" ELSE row.dk = "naive"

(* Python truth value of a number or None *)
Truthy(x) == x # None /\ x # 0

(* Python's round() of n / m for n >= 0, m > 0: nearest, ties to even *)
RoundHalfUp(n, m) == (2 * n + m) \div (2 * m)
Round(n, m) ==
    LET q == n \div m
        r == n % m
    IN  IF 2 * r < m THEN q
        ELSE IF 2 * r > m THEN q + 1
        ELSE IF q % 2 = 0 THEN q ELSE q + 1

(* The closePrice and percent a row gets from a looked-up price *)
Priced(v, row, price) ==
    IF v = "scraper"
    THEN \* main.py lines 278-283
         IF Truthy(price) /\ Truthy(row.dividendValue)
         THEN [closePrice |-> price * 1000,
               percent |-> Round(row.dividendValue * 100, price * 1000)]
         ELSE [closePrice |-> price, percent |-> 0]
    ELSE \* chronium.py lines 86-90
         [closePrice |-> IF Truthy(price) THEN price * 1000 ELSE 0,
          percent |-> IF Truthy(price) /\ Truthy(row.dividendValue)
                      THEN Round(row.dividendValue * 100, price * 1000)
                      ELSE 0]

(* The calendar day, relative to today = 0, whose quote is asked for.       *)
(* main.py lines 265 and 275: today = datetime.today() - 1 day, and         *)
(* today.strftime('%Y-%m-%d') is the date passed on and queried.            *)
(* chronium.py lines 55-60: get_stock_price puts its argument aside and     *)
(* takes now - 1 day before 09:30, now otherwise.                           *)
PriceDate(v, t) ==
    LET hour == (t % DayMin) \div 60
        minute == t % 60
    IN  IF v = "scraper" THEN (t - DayMin) \div DayMin
        ELSE IF hour < 9 \/ (hour = 9 /\ minute < 30)
             THEN (t - DayMin) \div DayMin
             ELSE t \div DayMin

(* What one iteration of the row loop does with a row *)
RowDecisionDropCodeless(v, row, t) ==
    IF IsNaT(row) THEN "skip"
    ELSE IF CompareRaises(v, row) THEN "raise"
    ELSE IF ~(DateOf(row) > MinDate(v, t)) THEN "skip"
    ELSE IF row.code THEN "lookup"
    ELSE "skip"
RowDecision(v, row, t) ==
    IF IsNaT(row) THEN "skip"
    ELSE IF CompareRaises(v, row) THEN "raise"
    ELSE IF ~(DateOf(row) > MinDate(v, t)) THEN "skip"
    ELSE IF row.code THEN "lookup"
    ELSE "zero"

(* the row of input position k with closePrice and percent set; id records *)
(* the position                                                             *)
WithFields(k, row, f) ==
    [id |-> k, dk |-> row.dk, off |-> row.off, code |-> row.code,
     dividendValue |-> row.dividendValue,
     closePrice |-> f.closePrice, percent |-> f.percent]

InitEnrich ==
    /\ variant \in Variants
    /\ now \in NowTimes
    /\ \E n \in 0..MaxBatch : batch \in BatchesOfLen(n)
    /\ i = 1
    /\ pc = IF batch = <<>> THEN "returned" ELSE "rows"
    /\ filtered_data = <<>>
    /\ lookups = [k \in 1..Len(batch) |-> <<>>]
    /\ queried = [k \in 1..Len(batch) |-> <<>>]
    /\ content = <<>> /\ extracted = None /\ drivers = 0 /\ result = ""
    /\ max_pages = 0 /\ page = 0 /\ all_data = <<>> /\ data = <<>>
    /\ data_bound = FALSE /\ requested = <<>> /\ outcomes = <<>>
    /\ httpTried = {}
    /\ dateHeader = "" /\ FILTER_PRICE = 0 /\ FILTER_PERCENT = 0
    /\ FILTER_MIN_DATE = 0 /\ filtered_items = <<>> /\ posts = <<>>
    /\ sendCalls = <<>> /\ csvCalls = <<>>

(* One iteration of the row loop of add_stock_prices *)
EnrichRow ==
    /\ pc = "rows" /\ i <= Len(batch)
    /\ LET row == batch[i]
           what == RowDecision(variant, row, now)
           next == IF i + 1 > Len(batch) THEN "returned" ELSE "rows"
       IN  \/ /\ what = "skip"
              /\ i' = i + 1 /\ pc' = next
              /\ UNCHANGED <<filtered_data, lookups, queried>>
           \/ /\ what = "raise"
              /\ pc' = "raised"
              /\ UNCHANGED <<i, filtered_data, lookups, queried>>
           \/ /\ what = "zero"
              /\ filtered_data' =
                    Append(filtered_data,
                           WithFields(i, row, [closePrice |-> 0, percent |-> 0]))
              /\ i' = i + 1 /\ pc' = next
              /\ UNCHANGED <<lookups, queried>>
           \/ /\ what = "lookup"
              /\ \E o \in OracleOutcomes :
                    LET price == GetStockPrice(o)
                    IN  /\ lookups' = [lookups EXCEPT ![i] = Append(@, price)]
                        /\ queried' = [queried EXCEPT
                                          ![i] = Append(@, PriceDate(variant, now))]
                        /\ filtered_data' =
                              Append(filtered_data,
                                     WithFields(i, row, Priced(variant, row, price)))
              /\ i' = i + 1 /\ pc' = next
    /\ UNCHANGED <<variant, batch, now>>
    /\ UNCHANGED collectVars /\ UNCHANGED mainVars
    /\ UNCHANGED extractVars /\ UNCHANGED sessionVars

NextEnrich == EnrichRow

SpecEnrich == InitEnrich /\ [][NextEnrich]_vars

----------------------------------------------------------------------------
(* main() of src/main.py *)

(* Header of the ex-rights date column in the scraped table:                *)
(* add_stock_prices reads either name, the filter stage of main() reads the *)
(* second only.                                                             *)
DateHeaders == {"Ngay GDKHQ", "Ngay GDKHQ (sort mark)"}

(* Values of FILTER_PRICE, FILTER_PERCENT and FILTER_MIN_DATE *)
PriceCeilings == {25000}
PercentFloors == {8, 10000}
MinLeadDays == {2}

(* line 435: the row mask of the filter stage *)
PassesFilterPriceAtMost(r) ==
    /\ r.closePrice <= FILTER_PRICE
    /\ r.percent >= FILTER_PERCENT
    /\ DateOf(r) >= now + FILTER_MIN_DATE * DayMin
PassesFilter(r) ==
    /\ r.closePrice < FILTER_PRICE
    /\ r.percent >= FILTER_PERCENT
    /\ DateOf(r) >= now + FILTER_MIN_DATE * DayMin

(* send_telegram_message, lines 378-388: the POSTs made for a non-empty     *)
(* list, given the outcome of a POST                                        *)
SendPostsRetry(items, outcome) ==
    IF outcome = "200" THEN <<[items |-> items, outcome |-> outcome]>>
    ELSE <<[items |-> items, outcome |-> outcome],
           [items |-> items, outcome |-> outcome]>>
SendPosts(items, outcome) == <<[items |-> items, outcome |-> outcome]>>

PostOutcomes == {"200", "non200", "exc"}

(* State at the start of main(): the thresholds read from the environment *)
InitMain ==
    /\ variant = "scraper"
    /\ pc = "scrape"
    /\ now \in NowTimes
    /\ FILTER_PRICE \in PriceCeilings
    /\ FILTER_PERCENT \in PercentFloors
    /\ FILTER_MIN_DATE \in MinLeadDays
    /\ dateHeader = ""
    /\ batch = <<>> /\ i = 1 /\ filtered_data = <<>> /\ lookups = <<>>
    /\ queried = <<>>
    /\ content = <<>> /\ extracted = None /\ drivers = 0 /\ result = ""
    /\ filtered_items = <<>> /\ posts = <<>> /\ sendCalls = <<>>
    /\ csvCalls = <<>>
    /\ max_pages = 1 /\ page = 0 /\ all_data = <<>> /\ data = <<>>
    /\ data_bound = FALSE /\ requested = <<>> /\ outcomes = <<>>
    /\ httpTried = {}

(* lines 409-419: scrape_vietstock_events(max_pages=1) raises (Selenium     *)
(* gave nothing for page 1) or returns a list of rows; an empty list ends   *)
(* the run, another is handed to add_stock_prices.                          *)
MainScrape ==
    /\ pc = "scrape"
    /\ \/ /\ pc' = "raised"
          /\ UNCHANGED <<batch, lookups, queried>>
       \/ \E n \in 0..MaxBatch : \E b \in BatchesOfLen(n) :
            /\ batch' = b
            /\ lookups' = [k \in 1..Len(b) |-> <<>>]
            /\ queried' = [k \in 1..Len(b) |-> <<>>]
            /\ pc' = IF b = <<>> THEN "done" ELSE "rows"
    /\ UNCHANGED <<variant, i, dateHeader, filtered_data, now, FILTER_PRICE, FILTER_PERCENT,
                   FILTER_MIN_DATE, filtered_items, posts, sendCalls, csvCalls>>
    /\ UNCHANGED collectVars
    /\ UNCHANGED extractVars /\ UNCHANGED sessionVars

(* lines 425-440: the filter stage, skipped for an empty enriched list.     *)
(* The date column is read by name here for the first time: the header the  *)
(* table has is drawn here. df['Ngay GDKHQ (sort mark)'] raises KeyError    *)
(* when the column has the other name; filtered_df.to_csv is not guarded.   *)
MainFilter ==
    /\ pc = "returned"
    /\ IF filtered_data = <<>>
       THEN pc' = "save" /\ UNCHANGED <<filtered_items, dateHeader>>
       ELSE \E h \in DateHeaders, written \in BOOLEAN :
                /\ dateHeader' = h
                /\ IF h # "Ngay GDKHQ (sort mark)"
                   THEN pc' = "raised" /\ UNCHANGED filtered_items
                   ELSE /\ filtered_items' = SelectSeq(filtered_data, PassesFilter)
                        /\ pc' = IF written THEN "send" ELSE "raised"
    /\ UNCHANGED <<variant, batch, i, filtered_data, now, lookups, queried,
                   FILTER_PRICE, FILTER_PERCENT, FILTER_MIN_DATE, posts,
                   sendCalls, csvCalls>>
    /\ UNCHANGED collectVars
    /\ UNCHANGED extractVars /\ UNCHANGED sessionVars

(* line 441: send_telegram_message(filtered_items, ...) *)
MainSend ==
    /\ pc = "send"
    /\ sendCalls' = Append(sendCalls, filtered_items)
    /\ IF filtered_items = <<>>
       THEN posts' = posts
       ELSE \E outcome \in PostOutcomes :
                posts' = posts \o SendPosts(filtered_items, outcome)
    /\ pc' = "save"
    /\ UNCHANGED <<variant, batch, i, filtered_data, now, lookups, queried, dateHeader,
                   FILTER_PRICE, FILTER_PERCENT, FILTER_MIN_DATE,
                   filtered_items, csvCalls>>
    /\ UNCHANGED collectVars
    /\ UNCHANGED extractVars /\ UNCHANGED sessionVars

(* line 442: save_to_csv(data, backup_filename): False for an empty list,   *)
(* else True, or False after a caught exception of the write.               *)
MainSaveCsv ==
    /\ pc = "save"
    /\ IF filtered_data = <<>>
       THEN csvCalls' = Append(csvCalls, "nodata")
       ELSE \E res \in {"saved", "failed"} : csvCalls' = Append(csvCalls, res)
    /\ pc' = "done"
    /\ UNCHANGED <<variant, batch, i, filtered_data, now, lookups, queried, dateHeader,
                   FILTER_PRICE, FILTER_PERCENT, FILTER_MIN_DATE,
                   filtered_items, posts, sendCalls>>
    /\ UNCHANGED collectVars
    /\ UNCHANGED extractVars /\ UNCHANGED sessionVars

NextMain == MainScrape \/ EnrichRow \/ MainFilter \/ MainSend \/ MainSaveCsv

SpecMain == InitMain /\ [][NextMain]_vars

----------------------------------------------------------------------------
(* The dividend extraction of a row: main.py lines 184-192, chronium.py     *)
(* lines 44-49. Both apply                                                  *)
(*   re.search(r'( \d{1,3} (?:,\d{3})* ) \s* dong/CP', content)             *)
(* and take int(match.group(1).replace(',', '')).                           *)

(* The characters of a content string: digits, the separator, a white       *)
(* space, the currency-per-share marker (the literal of the pattern, as one *)
(* symbol) and any other character.                                         *)
Digits == {"0", "1"}
Marker == "dong/CP"
Chars == Digits \cup {",", " ", Marker, "x"}

(* the content strings of at most MaxLen characters *)
ContentsOfLen(n) == [1..n -> Chars]

IsDigit(text, p) == p <= Len(text) /\ text[p] \in Digits

(* \s*dong/CP at position p: white space is taken greedily, the literal     *)
(* must follow                                                              *)
RECURSIVE MatchTail(_, _)
MatchTail(text, p) ==
    /\ p <= Len(text)
    /\ \/ text[p] = " " /\ MatchTail(text, p + 1)
       \/ text[p] = Marker

(* (?:,\d{3})* followed by the tail, at position p: one more group is tried *)
(* first, none after it failed. The position after group 1, 0 for no match. *)
RECURSIVE MatchGroups(_, _)
MatchGroups(text, p) ==
    LET more == IF /\ p <= Len(text) /\ text[p] = ","
                   /\ IsDigit(text, p + 1) /\ IsDigit(text, p + 2)
                   /\ IsDigit(text, p + 3)
                THEN MatchGroups(text, p + 4)
                ELSE 0
    IN  IF more # 0 THEN more
        ELSE IF MatchTail(text, p) THEN p
        ELSE 0

(* the pattern at position start: \d{1,3} takes three digits, then two,     *)
(* then one. The position after group 1, 0 for no match.                    *)
MatchAtNoGroups(text, start) ==
    LET try(k) == IF \A d \in 0..(k - 1) : IsDigit(text, start + d)
                  THEN IF MatchTail(text, start + k) THEN start + k ELSE 0
                  ELSE 0
    IN  IF try(3) # 0 THEN try(3)
        ELSE IF try(2) # 0 THEN try(2)
        ELSE try(1)
MatchAt(text, start) ==
    LET try(k) == IF \A d \in 0..(k - 1) : IsDigit(text, start + d)
                  THEN MatchGroups(text, start + k)
                  ELSE 0
    IN  IF try(3) # 0 THEN try(3)
        ELSE IF try(2) # 0 THEN try(2)
        ELSE try(1)

(* re.search: the match at the leftmost position that has one; group 1 as   *)
(* the pair of its first position and the position after it, <<0, 0>> for   *)
(* no match                                                                 *)
RECURSIVE Search(_, _)
Search(text, start) ==
    IF start > Len(text) THEN <<0, 0>>
    ELSE IF MatchAt(text, start) # 0 THEN <<start, MatchAt(text, start)>>
    ELSE Search(text, start + 1)

(* str.replace(',', '') *)
RemoveSeparators(group) == SelectSeq(group, LAMBDA c : c # ",")

(* int() of a string of digits *)
RECURSIVE ToInt(_)
ToInt(digits) ==
    IF digits = <<>> THEN 0
    ELSE 10 * ToInt(SubSeq(digits, 1, Len(digits) - 1))
         + (IF digits[Len(digits)] = "1" THEN 1 ELSE 0)

(* row_data['dividendValue'] of a row with the given content string *)
DividendValue(text) ==
    LET m == Search(text, 1)
    IN  IF m[1] # 0
        THEN ToInt(RemoveSeparators(SubSeq(text, m[1], m[2] - 1)))
        ELSE None

(* a row whose content string is about to be parsed *)
InitExtract ==
    /\ variant \in Variants
    /\ pc = "row"
    /\ \E n \in 0..MaxLen : content \in ContentsOfLen(n)
    /\ extracted = None
    /\ max_pages = 0 /\ page = 0 /\ all_data = <<>> /\ data = <<>>
    /\ data_bound = FALSE /\ requested = <<>> /\ outcomes = <<>>
    /\ httpTried = {}
    /\ batch = <<>> /\ i = 0 /\ filtered_data = <<>> /\ now = 0
    /\ lookups = <<>> /\ queried = <<>>
    /\ dateHeader = "" /\ FILTER_PRICE = 0 /\ FILTER_PERCENT = 0
    /\ FILTER_MIN_DATE = 0 /\ filtered_items = <<>> /\ posts = <<>>
    /\ sendCalls = <<>> /\ csvCalls = <<>>
    /\ drivers = 0 /\ result = ""

(* lines 186-192 (chronium.py 45-49) for one row *)
ExtractRow ==
    /\ pc = "row"
    /\ extracted' = DividendValue(content)
    /\ pc' = "extracted"
    /\ UNCHANGED <<variant, content>>
    /\ UNCHANGED collectVars /\ UNCHANGED enrichVars /\ UNCHANGED mainVars
    /\ UNCHANGED sessionVars

NextExtract == ExtractRow

SpecExtract == InitExtract /\ [][NextExtract]_vars

----------------------------------------------------------------------------
(* scrape_vietstock_events with scrape_with_selenium in steps: the session  *)
(* is opened by get_selenium_driver, used in the try block, and closed in   *)
(* the finally block.                                                       *)

(* `result` before scrape_with_selenium has returned, and its value None    *)
(* when get_selenium_driver gave no driver                                  *)
NoResult == [kind |-> "unset", n |-> 0]
NoDriver == [kind |-> "nodriver", n |-> 0]

(* the record of a page on which scrape_with_requests is not called *)
NotCalled == [kind |-> "notcalled", n |-> 0]

(* driver.quit(): the session is closed *)
QuitLeavesOpen(n) == n
Quit(n) == n - 1

InitSession ==
    /\ variant = "scraper"
    /\ max_pages \in 0..MaxPages
    /\ page = 1
    /\ pc = IF max_pages = 0 THEN "done" ELSE "loop"
    /\ all_data = <<>> /\ data = <<>> /\ data_bound = FALSE
    /\ requested = <<>> /\ outcomes = <<>> /\ httpTried = {}
    /\ drivers = 0 /\ result = NoResult
    /\ batch = <<>> /\ i = 0 /\ filtered_data = <<>> /\ now = 0
    /\ lookups = <<>> /\ queried = <<>>
    /\ dateHeader = "" /\ FILTER_PRICE = 0 /\ FILTER_PERCENT = 0
    /\ FILTER_MIN_DATE = 0 /\ filtered_items = <<>> /\ posts = <<>>
    /\ sendCalls = <<>> /\ csvCalls = <<>>
    /\ content = <<>> /\ extracted = None

(* lines 214-219 and 85-87: a page begins, get_selenium_driver gives a      *)
(* driver with an open session, or None after a caught exception, and then  *)
(* scrape_with_selenium returns None at once.                               *)
GetDriver ==
    /\ pc = "loop" /\ page <= max_pages
    /\ requested' = Append(requested, page)
    /\ \/ /\ drivers' = drivers + 1
          /\ result' = NoResult
          /\ pc' = "try"
       \/ /\ drivers' = drivers
          /\ result' = NoDriver
          /\ pc' = "parse"
    /\ UNCHANGED <<variant, max_pages, page, all_data, data, data_bound,
                   outcomes, httpTried>>
    /\ UNCHANGED enrichVars /\ UNCHANGED mainVars /\ UNCHANGED extractVars

(* lines 89-138: the try block ends with a page source, or with an          *)
(* exception of the load or the wait that the except branch turns into None *)
LoadPage ==
    /\ pc = "try"
    /\ \E sel \in SelOutcomes : result' = sel
    /\ pc' = "finally"
    /\ UNCHANGED drivers
    /\ UNCHANGED <<variant>> /\ UNCHANGED collectVars
    /\ UNCHANGED enrichVars /\ UNCHANGED mainVars /\ UNCHANGED extractVars

(* lines 139-140: finally: driver.quit(), on the way out of both branches *)
QuitDriver ==
    /\ pc = "finally"
    /\ drivers' = Quit(drivers)
    /\ pc' = "parse"
    /\ UNCHANGED result
    /\ UNCHANGED <<variant>> /\ UNCHANGED collectVars
    /\ UNCHANGED enrichVars /\ UNCHANGED mainVars /\ UNCHANGED extractVars

(* lines 222-240: the result is parsed, scrape_with_requests is called when *)
(* the parse gave no rows, and `if not data` ends the loop or not           *)
ParsePage ==
    /\ pc = "parse"
    /\ LET parsed == result.kind = "html"
           viaSel == PageRows(page, "sel", result.n)
           fallback == parsed /\ viaSel = <<>>
       IN  \E http \in (IF fallback THEN HttpOutcomes ELSE {NotCalled}) :
            LET viaHttp == PageRows(page, "http", http.n)
                newData == IF ~parsed THEN data
                           ELSE IF viaSel # <<>> THEN viaSel
                           ELSE IF http.kind = "html" THEN viaHttp
                           ELSE viaSel
                newBound == data_bound \/ parsed
                added == IF ~parsed THEN <<>>
                         ELSE IF viaSel # <<>> THEN viaSel
                         ELSE IF http.kind = "html" THEN viaHttp
                         ELSE <<>>
            IN  /\ outcomes' = Append(outcomes, [sel |-> result, http |-> http])
                /\ httpTried' = IF fallback THEN httpTried \cup {page}
                                ELSE httpTried
                /\ all_data' = Extend(all_data, added)
                /\ data' = newData
                /\ data_bound' = newBound
                /\ pc' = IF ~newBound THEN "raised"
                         ELSE IF newData = <<>> THEN "done"
                         ELSE "sleep"
    /\ UNCHANGED <<variant, max_pages, page, requested>>
    /\ UNCHANGED sessionVars
    /\ UNCHANGED enrichVars /\ UNCHANGED mainVars /\ UNCHANGED extractVars

(* line 243 and the step of the loop: time.sleep(2), then the next page or  *)
(* the return of all_data                                                   *)
Delay ==
    /\ pc = "sleep"
    /\ page' = NextPage(page)
    /\ pc' = IF NextPage(page) > max_pages THEN "done" ELSE "loop"
    /\ UNCHANGED <<variant, max_pages, all_data, data, data_bound, requested,
                   outcomes, httpTried>>
    /\ UNCHANGED sessionVars
    /\ UNCHANGED enrichVars /\ UNCHANGED mainVars /\ UNCHANGED extractVars

NextSession == GetDriver \/ LoadPage \/ QuitDriver \/ ParsePage \/ Delay

SpecSession == InitSession /\ [][NextSession]_vars

----------------------------------------------------------------------------
(* Properties of the collectors *)

(* Did requested page number k yield zero rows from every tier *)
PageEmpty(k) ==
    IF variant = "scraper"
    THEN ~GivesRows(outcomes[k].sel) /\ ~GivesRows(outcomes[k].http)
    ELSE outcomes[k].kind = "non200"
         \/ (outcomes[k].kind = "ok" /\ outcomes[k].rows = <<>>)

C1_Budget == Len(requested) <= max_pages

C1_StopAtEmpty ==
    \A k \in 1..Len(requested) :
        PageEmpty(k) => \A j \in 1..Len(requested) : requested[j] <= requested[k]

C1_ReturnsAccumulated ==
    \A k \in 1..Len(requested) :
        PageEmpty(k) =>
            /\ pc = "done"
            /\ \A j \in 1..Len(all_data) : all_data[j].page < requested[k]

(* C1: in a run of either collector at most max_pages pages are requested,  *)
(* once a page p has yielded zero rows from every tier no page after p is   *)
(* requested, and the run then returns the rows of the pages before p.      *)
C1_StopsAtFirstEmptyPage ==
    C1_Budget /\ C1_StopAtEmpty /\ C1_ReturnsAccumulated

(* C2: in scrape_vietstock_events every page whose Selenium fetch fails or  *)
(* gives no rows gets its plain-HTTP fetch before it counts as empty, and   *)
(* when both tiers give no rows the loop stops there and the call returns   *)
(* without raising.                                                         *)
C2_FallbackBeforeEmpty ==
    variant = "scraper" =>
        \A k \in 1..Len(requested) :
            ~GivesRows(outcomes[k].sel) =>
                /\ requested[k] \in httpTried
                /\ ~GivesRows(outcomes[k].http) =>
                       pc = "done" /\ k = Len(requested)

(* Number of rows the source gave for page p through a tier *)
SourceCount(p, tier) ==
    IF tier = "api" THEN Len(outcomes[p].rows)
    ELSE IF tier = "sel" THEN outcomes[p].sel.n
    ELSE outcomes[p].http.n

C3_Pagination ==
    /\ requested = [k \in 1..Len(requested) |-> k]
    /\ Len(requested) <= max_pages

C3_RowOrder ==
    \A j \in 1..Len(all_data) :
        LET r == all_data[j]
        IN  /\ r.page \in 1..Len(requested)
            /\ IF r.idx = 1
               THEN j = 1 \/ all_data[j - 1].page < r.page
               ELSE /\ j > 1
                    /\ all_data[j - 1].page = r.page
                    /\ all_data[j - 1].tier = r.tier
                    /\ all_data[j - 1].idx = r.idx - 1

C3_WholePages ==
    pc = "done" =>
        \A j \in 1..Len(all_data) :
            (j = Len(all_data) \/ all_data[j + 1].page # all_data[j].page)
                => all_data[j].idx = SourceCount(all_data[j].page, all_data[j].tier)

(* C3: the pages requested in a run are exactly 1, 2, ..., k with           *)
(* k <= max_pages, and the returned list is the concatenation, in page      *)
(* order, of each contributing page's rows in source order, each page       *)
(* contributing through one tier only.                                      *)
C3_PagesInOrderOnce == C3_Pagination /\ C3_RowOrder /\ C3_WholePages

(* A run that returned after three pages, with rows of a Selenium page and  *)
(* rows of a plain-HTTP fallback page in the result.                        *)
C3_Witness ==
    /\ pc = "done" /\ Len(requested) = 3
    /\ \E j, k \in 1..Len(all_data) :
        /\ j < k /\ all_data[j].tier = "sel" /\ all_data[k].tier = "http"
        /\ all_data[k].idx = 2

----------------------------------------------------------------------------
(* Properties of the row loops *)

(* C4: no single row ends a batch with an exception: the row loop of        *)
(* crawl_events and the row loop of add_stock_prices (both variants) never  *)
(* raise, whatever a row's content, date or price lookup gives. (A raise    *)
(* of the page loop itself, before any row is looked at, is not a row's.)   *)
C4_NoRowAbortsBatch ==
    pc = "raised" =>
        /\ batch = <<>>
        /\ variant = "scraper" \/ outcomes[Len(outcomes)].kind = "exc"

(* the lead time the main.py docstring and chronium.py state, in days *)
LeadDays == 3

(* C5: a row is in the output of add_stock_prices only if its ex-rights     *)
(* date parses to a value strictly after now + 3 days.                      *)
C5_OutputAfterLeadTime ==
    \A k \in 1..Len(filtered_data) :
        /\ ~IsNaT(filtered_data[k])
        /\ DateOf(filtered_data[k]) > now + LeadDays * DayMin

(* the rows of the input the row loop has been through *)
Processed == IF pc = "returned" THEN Len(batch) ELSE i - 1

(* a row whose date parses to a value after the variant's min_date *)
DateEligible(row) ==
    /\ row.dk \in {"naive", "aware"}
    /\ row.off * DayMin > MinDate(variant, now)

RECURSIVE EligibleIds(_)
EligibleIds(n) ==
    IF n = 0 THEN <<>>
    ELSE IF DateEligible(batch[n]) THEN Append(EligibleIds(n - 1), n)
    ELSE EligibleIds(n - 1)

C7_PercentIsRoundedYield ==
    \A k \in 1..Len(filtered_data) :
        LET r == filtered_data[k]
            d == r.dividendValue
            p == r.closePrice
            err == r.percent * p - d * 100
        IN  /\ (d > 0 /\ p > 0) =>
                /\ 2 * err <= p /\ -2 * err <= p
                /\ (2 * err = p \/ -2 * err = p) => r.percent % 2 = 0
            /\ (d = None \/ d = 0 \/ p = 0) => r.percent = 0

(* The example of the claim, and a tie: 2000 at 25000 gives 8, 2000 at      *)
(* 16000 (12.5) gives 12.                                                   *)
C7_Witness ==
    /\ Len(filtered_data) = 2
    /\ filtered_data[1].dividendValue = 2000
    /\ filtered_data[1].closePrice = 25000 /\ filtered_data[1].percent = 8
    /\ filtered_data[2].dividendValue = 2000
    /\ filtered_data[2].closePrice = 16000 /\ filtered_data[2].percent = 12

(* get_stock_price's result is in thousands *)
Denomination == 1000

(* C8: every output row with a stock code has closePrice = the price the    *)
(* oracle returned for it times 1000, with or without a dividend value.     *)
C8_ClosePriceInBaseUnits ==
    \A k \in 1..Len(filtered_data) :
        LET r == filtered_data[k]
        IN  r.code => /\ Len(lookups[r.id]) = 1
                      /\ r.closePrice = lookups[r.id][1] * Denomination

----------------------------------------------------------------------------
(* Properties of main() *)

(* has the filter stage of this run selected its rows *)
FilterDone == pc = "send" \/ sendCalls # <<>>

C9_Selected(r) ==
    /\ r.closePrice < FILTER_PRICE
    /\ r.percent >= FILTER_PERCENT
    /\ r.off * DayMin >= now + FILTER_MIN_DATE * DayMin

C10_OneSendThenBackup ==
    /\ Len(posts) <= 1
    /\ Len(sendCalls) <= 1
    /\ posts # <<>> =>
        /\ posts[1].items = filtered_items
        /\ sendCalls = <<filtered_items>>
        /\ pc \in {"save", "done"}
        /\ Len(csvCalls) = IF pc = "done" THEN 1 ELSE 0

(* A finished run whose only POST ended in a transport exception and whose  *)
(* backup write failed.                                                     *)
C10_Witness ==
    /\ pc = "done" /\ Len(posts) = 1 /\ posts[1].outcome = "exc"
    /\ csvCalls = <<"failed">>

----------------------------------------------------------------------------
(* Properties of the dividend extraction *)

(* content[a..b] is an integer written in groups: one to three digits,      *)
(* then any number of groups of ',' and three digits                        *)
C11_Grouped(a, b) ==
    /\ a <= b /\ b <= Len(content)
    /\ \E k \in 1..3 :
        /\ (b - a + 1 - k) % 4 = 0
        /\ \A p \in a..b :
            IF p < a + k THEN content[p] \in Digits
            ELSE IF (p - a - k) % 4 = 0 THEN content[p] = ","
            ELSE content[p] \in Digits

(* content[b+1..] is white space, possibly none, and then the marker *)
C11_Marked(b) ==
    \E e \in (b + 1)..Len(content) :
        /\ content[e] = Marker
        /\ \A p \in (b + 1)..(e - 1) : content[p] = " "

C11_Occurrence(a, b) == C11_Marked(b) /\ C11_Grouped(a, b)

(* an occurrence starts at position a *)
C11_StartsAt(a) == \E b \in a..Len(content) : C11_Occurrence(a, b)

(* the number content[a..b] writes, its separators left out *)
RECURSIVE C11_Number(_, _)
C11_Number(a, b) ==
    IF b < a THEN 0
    ELSE IF content[b] = "," THEN C11_Number(a, b - 1)
    ELSE IF content[b] = "1" THEN 1 + 10 * C11_Number(a, b - 1)
    ELSE 10 * C11_Number(a, b - 1)

(* C11: for every content string that holds a thousands-grouped integer     *)
(* followed by optional white space and the marker, the extraction gives    *)
(* the whole integer of the first such occurrence with its separators       *)
(* removed; for every string without the marker it gives None.              *)
C11_ExtractsFirstGroupedInteger ==
    pc = "extracted" =>
        /\ \A a, b \in 1..Len(content) :
              (/\ C11_Occurrence(a, b)
               /\ \A a2 \in 1..(a - 1) : ~C11_StartsAt(a2))
                  => extracted = C11_Number(a, b)
        /\ (\A p \in 1..Len(content) : content[p] # Marker)
              => extracted = None

(* "1,000dong/CP" has been parsed to 1000 *)
C11_Witness ==
    /\ pc = "extracted"
    /\ content = <<"1", ",", "0", "0", "0", Marker>>
    /\ extracted = 1000

----------------------------------------------------------------------------
(* Properties of the browser session *)

(* C12: during scrape_vietstock_events at most one browser session is open  *)
(* at any time, and none is open outside scrape_with_selenium: not when a   *)
(* page begins, not at the parse and the plain-HTTP fallback, not during    *)
(* the delay, not when the run has returned or raised.                      *)
C12_AtMostOneSession ==
    /\ drivers \in {0, 1}
    /\ pc \in {"loop", "parse", "sleep", "done", "raised"} => drivers = 0

(* A run that returned after three pages; on the second the session was     *)
(* opened and the load raised, on the third the plain-HTTP fallback was     *)
(* made.                                                                    *)
C12_Witness ==
    /\ pc = "done" /\ Len(outcomes) = 3 /\ drivers = 0
    /\ outcomes[2].sel.kind = "none"
    /\ 3 \in httpTried

(* the opening of the trading session, 09:30, in minutes since midnight *)
SessionOpen == 570

(* the day the session-boundary rule gives at wall-clock time t *)
BoundaryDay(t) == IF t % DayMin < SessionOpen THEN -1 ELSE 0

(* C13: in both variants every price lookup of add_stock_prices asks the    *)
(* quote provider for the previous calendar day when the wall clock is      *)
(* before 09:30 and for the current calendar day from 09:30 on.             *)
C13_QueryDateFollowsBoundary ==
    \A k \in 1..Len(queried) :
        \A j \in 1..Len(queried[k]) : queried[k][j] = BoundaryDay(now)

====
